---------------------------- MODULE Spec2Model ----------------------------
(***************************************************************************)
(* A model of 125HR_preview.py: the ftsreader class (the reader of the     *)
(* OPUS binary container: magic test, block directory, parameter blocks,   *)
(* data blocks) and the smooth_ifg function (apodization and low-pass      *)
(* filter window of the interferogram).                                    *)
(*                                                                         *)
(* The byte source is a sequence of bytes (0..255).  The reader parses     *)
(* these bytes as the code does (native little-endian struct layouts,      *)
(* short reads at the end of the source, struct.error on a short buffer).  *)
(* The sources are serialised from a small abstract description (src),    *)
(* which is kept beside the bytes so that what the reader decoded can be   *)
(* compared with what was encoded.                                         *)
(***************************************************************************)
EXTENDS Integers, Sequences, FiniteSets, TLC

VARIABLES
    src,        \* the description the source bytes were serialised from
    data,       \* self.streamdata: the bytes of the source (filemode 'mem')
    getslices,  \* constructor argument
    getifg,     \* constructor argument
    pc,         \* position of the constructor / reader
    status,     \* self.status
    isftsfile,  \* self.isftsfile (meaningful when "isftsfile" \in defined)
    defined,    \* the attributes of the reader that have been assigned
    fs,         \* self.fs: the directory, in insertion order
    header,     \* self.header: block name -> (tag -> value)
    ifg,        \* (self.ifgopd, self.ifg) once read
    log,        \* self.log
    reads,      \* every f.read of the source: <<operation, position, count>>
    calls,      \* every getparamsfromblock call: block, offset, outcome
    sidx,       \* read_structure: loop index i
    snum,       \* read_structure: numberofblocks
    spos,       \* read_structure: position of the file cursor
    hidx,       \* read_header: index of the block in self.fs.keys()
    poff,       \* getparamsfromblock: offset
    pi,         \* getparamsfromblock: i
    params,     \* getparamsfromblock: params
    ret,        \* outcome of the last get_datablocks call made by a caller
    sm,         \* smooth_ifg: its arguments and its result
    fi,         \* the file objects of getfileobject: open now, and most open at once
    running,    \* Preview125: self.running
    timer1,     \* Preview125: self._timer1 is active
    ppc,        \* Preview125: position of the handler the event loop runs
    pstatus,    \* get_preview: status
    tick,       \* the number of timer callbacks (_update) started so far
    polls,      \* get_preview: the get_status calls of this callback
    sent,       \* every requests.get: the callback, the url and the reply
    parsed      \* the callbacks in which ftsreader parsed the downloaded file

vars == <<src, data, getslices, getifg, pc, status, isftsfile, defined, fs,
          header, ifg, log, reads, calls, sidx, snum, spos, hidx, poff, pi,
          params, ret, sm, fi, running, timer1, ppc, pstatus, tick, polls,
          sent, parsed>>

\* the state of the preview window, and the state of the reader
preview == <<running, timer1, ppc, pstatus, tick, polls, sent, parsed>>
readervars == <<src, data, getslices, getifg, pc, status, isftsfile, defined,
                fs, header, ifg, log, reads, calls, sidx, snum, spos, hidx,
                poff, pi, params, ret, sm, fi>>

(***************************************************************************)
(* Bounds of the model.                                                    *)
(***************************************************************************)
\* the longest directory that is enumerated
MaxBlocks == 2
\* the longest record sequence of a parameter block that is enumerated
MaxRecs == 3
\* the longest interferogram handed to smooth_ifg beyond its window
MaxExtra == 3

(***************************************************************************)
(* Sizes of the binary layout.                                             *)
(***************************************************************************)
\* struct.calcsize('6i')
HeaderSize == 24
\* struct.calcsize('2BH2i')
EntrySize == 12
\* f.read(8): the record header '4s2H'
RecHeadSize == 8

(***************************************************************************)
(* Bytes.                                                                  *)
(***************************************************************************)
Min(a, b) == IF a < b THEN a ELSE b
Max(a, b) == IF a > b THEN a ELSE b

Pow256(k) == CASE k = 0 -> 1 [] k = 1 -> 256 [] k = 2 -> 65536 [] OTHER -> 16777216

Zeros(n) == [i \in 1..n |-> 0]

\* struct.pack of an integer in w little-endian bytes (two's complement)
LE(n, w) == [i \in 1..w |-> (n \div Pow256(i - 1)) % 256]

\* struct.unpack 'H' / 'B': unsigned little-endian
U16(b) == b[1] + 256 * b[2]

\* struct.unpack 'i': signed 32-bit little-endian
I32(b) == b[1] + 256 * b[2] + 65536 * b[3]
          + 16777216 * (IF b[4] >= 128 THEN b[4] - 256 ELSE b[4])

\* f.seek(pos); f.read(n) on a BytesIO: a short (or empty) result at the end
\* of the source; a negative n reads to the end
ReadAt(d, pos, n) ==
    IF n < 0 THEN SubSeq(d, pos + 1, Len(d))
    ELSE SubSeq(d, pos + 1, Min(pos + n, Len(d)))

\* b'\n\n\xfe\xfe'
ftsmagicval == <<10, 10, 254, 254>>


(***************************************************************************)
(* read_structure: the two catalogues and the name of a directory entry.   *)
(***************************************************************************)
\* self.__blocknames: the keys are str(blocktype)
blocknames ==
    [k \in {"160", "23", "96", "64", "48", "32", "7", "0"} |->
        CASE k = "160" -> "Sample Parameters"
          [] k = "23"  -> "Data Parameters"
          [] k = "96"  -> "Optic Parameters"
          [] k = "64"  -> "FT Parameters"
          [] k = "48"  -> "Acquisition Parameters"
          [] k = "32"  -> "Instrument Parameters"
          [] k = "7"   -> "Data Block"
          [] OTHER     -> "something"]

\* self.__blocknames2: five keys are str objects, two are bytes objects
\* (b'\x84', b'\x88'); a key is written <<type of the key, its text>>, the
\* text of a bytes key being its hexadecimal digits
blocknames2 ==
    [k \in {<<"str", "132">>, <<"str", "4">>, <<"str", "8">>, <<"str", "20">>,
            <<"str", "12">>, <<"bytes", "84">>, <<"bytes", "88">>} |->
        CASE k = <<"str", "132">>  -> " ScSm"
          [] k = <<"str", "4">>    -> " SpSm"
          [] k = <<"str", "8">>    -> " IgSm"
          [] k = <<"str", "20">>   -> " TrSm"
          [] k = <<"str", "12">>   -> " PhSm"
          [] k = <<"bytes", "84">> -> " SpSm/2.Chn."
          [] OTHER                 -> " IgSm/2.Chn."]

\* blocktype2 = str(blocktype2): the key that is looked up is a str
StrKey(b) == <<"str", ToString(b)>>

\* ' len %3i' % (length)
FmtLen(n) ==
    LET s == ToString(n)
    IN  " len " \o (CASE Len(s) = 1 -> "  " [] Len(s) = 2 -> " " [] OTHER -> "") \o s

\* the suffix appended for the secondary type code (lines 91-93)
Suffix2(b2) ==
    IF StrKey(b2) \in DOMAIN blocknames2 THEN blocknames2[StrKey(b2)] ELSE ""

\* hdrblockname as it is logged (lines 85-93); bt and bt2 are the two type
\* bytes
Identified(bt, bt2) ==
    LET blocktype == ToString(bt)
    IN  (IF blocktype \in DOMAIN blocknames THEN blocknames[blocktype]
         ELSE "[unknown block " \o blocktype \o "]") \o Suffix2(bt2)

\* hdrblockname as it keys self.fs (lines 95-98)
HdrBlockName(bt, bt2, length) ==
    LET blocktype == ToString(bt)
    IN  IF blocktype = "0" \/ blocktype \notin DOMAIN blocknames
        THEN Identified(bt, bt2) \o FmtLen(length)
        ELSE Identified(bt, bt2)

\* the value stored in self.fs under the name (line 99)
FsEntry(s) ==
    LET bt == s[1]
        bt2 == s[2]
        length == I32(SubSeq(s, 5, 8))
        offset2 == I32(SubSeq(s, 9, 12))
    IN  [name |-> HdrBlockName(bt, bt2, length),
         blocktype |-> ToString(bt), blocktype2 |-> ToString(bt2),
         length |-> length, offset |-> offset2]

\* a variant of FsPut, as the code would be if: the first entry under a name is kept
FsPutKeepFirst(d, e) ==
    IF \E i \in 1..Len(d) : d[i].name = e.name THEN d ELSE Append(d, e)

\* self.fs[hdrblockname] = {...}: a dict keeps the position of a key that is
\* assigned again and replaces its value
FsPut(d, e) ==
    IF \E i \in 1..Len(d) : d[i].name = e.name
    THEN [i \in 1..Len(d) |-> IF d[i].name = e.name THEN e ELSE d[i]]
    ELSE Append(d, e)

\* list(self.fs.keys())
FsKeys(d) == {d[i].name : i \in 1..Len(d)}

\* self.fs[blockname]
FsGet(d, name) == d[CHOOSE i \in 1..Len(d) : d[i].name = name]

(***************************************************************************)
(* read_header: which blocks are decoded.                                  *)
(***************************************************************************)
\* sub in s
Contains(s, sub) ==
    \E i \in 1..(Len(s) - Len(sub) + 1) : SubSeq(s, i, i + Len(sub) - 1) = sub

\* block[:10] != 'Data Block' and self.fs[block]['length'] > 0 (line 175)
HeaderBearing(e) ==
    /\ SubSeq(e.name, 1, Min(10, Len(e.name))) # "Data Block"
    /\ e.length > 0

\* a variant of SkippedName, as the code would be if: nothing is skipped
SkippedNameNever(name) == FALSE

\* 'unknown' in block or 'something' in block (line 176)
SkippedName(name) == Contains(name, "unknown") \/ Contains(name, "something")

(***************************************************************************)
(* getparamsfromblock: one record.                                         *)
(***************************************************************************)
IntVal(n) == <<"int", n>>
FloatVal(b) == <<"float">> \o b
StrVal(c) == <<"str">> \o c
Raise(kind) == <<"raise", kind>>
Raised(v) == v[1] = "raise"

\* '[read error]' as code points
ReadError == StrVal(<<91, 114, 101, 97, 100, 32, 101, 114, 114, 111, 114, 93>>)

\* if struct.unpack('4c', para)[-1] == b'\x00': para = para[:-1]
TrimPara(para) == IF para[4] = 0 THEN SubSeq(para, 1, 3) ELSE para

\* a variant of IsTerminator, as the code would be if: a zero word count does not end the block
IsTerminatorEndOnly(para, length) == SubSeq(para, 1, Min(3, Len(para))) = <<69, 78, 68>>

\* not (para[:3] != b'END' and length > 0)
IsTerminator(para, length) ==
    SubSeq(para, 1, Min(3, Len(para))) = <<69, 78, 68>> \/ length <= 0

\* the characters of the text before its first zero byte (lines 145-151);
\* ISO-8859-1 maps every byte to the code point of the same number
UpToNul(t) ==
    LET nul == {i \in 1..Len(t) : t[i] = 0}
    IN  IF nul = {} THEN t
        ELSE SubSeq(t, 1, (CHOOSE i \in nul : \A j \in nul : i <= j) - 1)

\* a variant of DecodeValue, as the code would be if: a type code outside 0..4 is a decoding failure
DecodeValueStrict(thistype, length, d) ==
    CASE thistype = 0 ->
           IF Len(d) >= 4 /\ Len(d) % 4 = 0
           THEN IntVal(I32(SubSeq(d, 1, 4))) ELSE Raise("struct.error")
      [] thistype = 1 ->
           IF Len(d) >= 8 /\ Len(d) % 8 = 0
           THEN FloatVal(SubSeq(d, 1, 8)) ELSE Raise("struct.error")
      [] thistype >= 2 /\ thistype <= 4 ->
           IF Len(d) = 2 * length THEN StrVal(UpToNul(d)) ELSE Raise("struct.error")
      [] OTHER -> Raise("ValueError")

\* val of lines 139-153: struct.unpack needs a buffer of exactly the size of
\* its format, '%1ii' % (len(data)/4) is int(len(data)/4) integers, and [0] of
\* an empty tuple is an IndexError
DecodeValue(thistype, length, d) ==
    CASE thistype = 0 ->
           IF Len(d) % 4 # 0 THEN Raise("struct.error")
           ELSE IF Len(d) = 0 THEN Raise("IndexError")
           ELSE IntVal(I32(SubSeq(d, 1, 4)))
      [] thistype = 1 ->
           IF Len(d) % 8 # 0 THEN Raise("struct.error")
           ELSE IF Len(d) = 0 THEN Raise("IndexError")
           ELSE FloatVal(SubSeq(d, 1, 8))
      [] thistype >= 2 /\ thistype <= 4 ->
           IF Len(d) = 2 * length THEN StrVal(UpToNul(d)) ELSE Raise("struct.error")
      [] OTHER -> ReadError

\* para.decode(): UTF-8; the sources of the model hold ASCII bytes and the
\* byte 0xFF, which no UTF-8 text contains
Utf8Ok(para) == \A i \in 1..Len(para) : para[i] < 128

\* params[key] = val
MapPut(m, key, val) ==
    [k \in DOMAIN m \cup {key} |-> IF k = key THEN val ELSE m[k]]

EmptyMap == [k \in {} |-> <<>>]

(***************************************************************************)
(* The sources: descriptions and their serialisation.                      *)
(*                                                                         *)
(* A description is [magic, off, n, dir, recs, ns, drop]: the 4 magic      *)
(* bytes, offset1 and numberofblocks of the global header, the directory   *)
(* entries, the records of the parameter region, the number of samples of  *)
(* the data region and the number of bytes missing at the end.  The        *)
(* directory follows the global header, the parameter region follows the   *)
(* directory, and the data region follows the parameter region.            *)
(***************************************************************************)
\* the tags of the records: 'PKL\0', 'RES\0', 'ABCD', 'END\0', 'ENDX',
\* 'ZZZ\0' and b'\xffAB\0'
TagPKL == <<80, 75, 76, 0>>
TagRES == <<82, 69, 83, 0>>
TagABCD == <<65, 66, 67, 68>>
TagEND == <<69, 78, 68, 0>>
TagENDX == <<69, 78, 68, 88>>
TagZZZ == <<90, 90, 90, 0>>
TagBad == <<255, 65, 66, 0>>

\* the double 0.1, as struct.pack('d', 0.1)
BitsTenth == <<154, 153, 153, 153, 153, 153, 185, 63>>

\* a record and what a decoder is expected to make of it: kind "store" (the
\* value val under the key), "skip" (nothing stored) or "end" (a terminator)
Rec(tag, type, wc, payload, kind, key, val) ==
    [tag |-> tag, type |-> type, wc |-> wc, payload |-> payload,
     kind |-> kind, key |-> key, val |-> val]

IntRec(tag, key, n) == Rec(tag, 0, 2, LE(n, 4), "store", key, IntVal(n))

RecPKL5 == IntRec(TagPKL, <<80, 75, 76>>, 5)
RecPKLneg == IntRec(TagPKL, <<80, 75, 76>>, -2)
RecRES == Rec(TagRES, 1, 4, BitsTenth, "store", <<82, 69, 83>>, FloatVal(BitsTenth))
RecText == Rec(TagABCD, 2, 2, <<72, 105, 0, 120>>, "store", TagABCD, StrVal(<<72, 105>>))
RecBadType == Rec(TagRES, 5, 1, <<1, 2>>, "badtype", <<82, 69, 83>>, ReadError)
RecOddInt == Rec(TagPKL, 0, 1, <<7, 0>>, "skip", <<80, 75, 76>>, <<"none">>)
RecBadTag == Rec(TagBad, 0, 2, LE(9, 4), "skip", <<255, 65, 66>>, <<"none">>)
RecEND == Rec(TagEND, 0, 0, <<>>, "end", <<>>, <<"none">>)
RecENDX == Rec(TagENDX, 0, 2, LE(3, 4), "end", <<>>, <<"none">>)
RecZero == Rec(TagZZZ, 1, 0, <<>>, "end", <<>>, <<"none">>)

RecAlphabet == {RecPKL5, RecPKLneg, RecRES, RecText, RecBadType, RecOddInt,
                RecBadTag, RecEND, RecENDX, RecZero}

\* the parameter region of the sources whose directory is enumerated
CannedRecs == <<RecPKL5, RecRES, RecEND>>

RecBytes(r) == r.tag \o LE(r.type, 2) \o LE(r.wc, 2) \o r.payload

RECURSIVE RecsBytes(_)
RecsBytes(rs) == IF rs = <<>> THEN <<>> ELSE RecBytes(Head(rs)) \o RecsBytes(Tail(rs))

EntryBytes(e) == <<e.bt, e.bt2>> \o Zeros(2) \o LE(e.length, 4) \o LE(e.offset, 4)

RECURSIVE DirBytes(_)
DirBytes(es) == IF es = <<>> THEN <<>> ELSE EntryBytes(Head(es)) \o DirBytes(Tail(es))

\* a sample of the data region: 4 bytes that number it
SampleBytes(k) == <<k, 0, 128, 63>>

RECURSIVE DataBytes(_)
DataBytes(n) == IF n = 0 THEN <<>> ELSE DataBytes(n - 1) \o SampleBytes(n)

FullBytes(s) ==
    s.magic \o Zeros(8) \o LE(s.off, 4) \o Zeros(4) \o LE(s.n, 4)
    \o DirBytes(s.dir) \o RecsBytes(s.recs) \o DataBytes(s.ns)

Encode(s) == LET b == FullBytes(s) IN SubSeq(b, 1, Len(b) - s.drop)

\* where the regions of a source with nd directory entries start
ParamOff(nd) == HeaderSize + EntrySize * nd
Param2Off(nd, recs) ==
    ParamOff(nd) + (IF recs = <<>> THEN 0 ELSE Len(RecBytes(recs[1])))
DataOff(nd, recs) == ParamOff(nd) + Len(RecsBytes(recs))
EndOff(nd, recs, ns) == DataOff(nd, recs) + 4 * ns

\* the directory entries that are enumerated: type codes, length and the
\* region the entry points to ("P" parameter region, "P2" its second record,
\* "D" data region, "E" the end of the source)
AbsEntry(bt, bt2, length, target) ==
    [bt |-> bt, bt2 |-> bt2, length |-> length, target |-> target]

EntryAlphabet ==
    {AbsEntry(32, 0, 40, "P"), AbsEntry(32, 0, 20, "P2"),
     AbsEntry(48, 0, 40, "P"), AbsEntry(7, 8, 2, "D"),
     AbsEntry(7, 136, 2, "D"), AbsEntry(23, 132, 40, "P"),
     AbsEntry(0, 0, 40, "P"), AbsEntry(5, 4, 40, "P"),
     AbsEntry(5, 4, 40, "P2"), AbsEntry(96, 0, 0, "P"),
     AbsEntry(64, 0, 40, "E")}

Place(a, nd, recs, ns) ==
    [bt |-> a.bt, bt2 |-> a.bt2, length |-> a.length,
     offset |-> CASE a.target = "P" -> ParamOff(nd)
                  [] a.target = "P2" -> Param2Off(nd, recs)
                  [] a.target = "D" -> DataOff(nd, recs)
                  [] OTHER -> EndOff(nd, recs, ns)]

SeqsUpTo(S, n) == UNION {[1..k -> S] : k \in 0..n}

Source(magic, off, n, dir, recs, ns, drop) ==
    [magic |-> magic, off |-> off, n |-> n, dir |-> dir, recs |-> recs,
     ns |-> ns, drop |-> drop]

\* sources whose directory is enumerated; the source is whole, or ends 6
\* bytes before the end of its directory
DirSources ==
    {Source(ftsmagicval, HeaderSize, Len(ad),
            [i \in 1..Len(ad) |-> Place(ad[i], Len(ad), CannedRecs, 2)],
            CannedRecs, 2, drop) :
        ad \in SeqsUpTo(EntryAlphabet, MaxBlocks), drop \in {0}}
    \cup
    {Source(ftsmagicval, HeaderSize, Len(ad),
            [i \in 1..Len(ad) |-> Place(ad[i], Len(ad), <<>>, 0)],
            <<>>, 0, 6) :
        ad \in SeqsUpTo(EntryAlphabet, MaxBlocks) \ {<<>>}}

\* sources whose parameter block is enumerated: one 'Instrument Parameters'
\* entry; the source is whole, or its last 3 bytes are missing
RecSources ==
    {Source(ftsmagicval, HeaderSize, 1,
            <<Place(AbsEntry(32, 0, 40, "P"), 1, recs, 0)>>, recs, 0, drop) :
        recs \in SeqsUpTo(RecAlphabet, MaxRecs), drop \in {0, 3}}

\* a directory of one interferogram block and one parameter block
TwoBlocks ==
    <<Place(AbsEntry(7, 8, 2, "D"), 2, CannedRecs, 2),
      Place(AbsEntry(48, 0, 40, "P"), 2, CannedRecs, 2)>>

\* two parameter blocks that share the parameter region: the first holds
\* the record PKL alone and has no terminator, the second (RES and END)
\* follows it; l1 and l2 are the lengths the directory gives for them
Unterminated(l1, l2) ==
    Source(ftsmagicval, HeaderSize, 2,
           <<Place(AbsEntry(48, 0, l1, "P"), 2, CannedRecs, 0),
             Place(AbsEntry(32, 0, l2, "P2"), 2, CannedRecs, 0)>>,
           CannedRecs, 0, 0)

\* one 'Instrument Parameters' entry whose offset is off, whatever lies
\* there: before the source, in the global header, inside a record, inside
\* the data region, beyond the end
OddOffset(off) ==
    Source(ftsmagicval, HeaderSize, 1,
           <<[bt |-> 32, bt2 |-> 0, length |-> 40, offset |-> off]>>,
           CannedRecs, 2, 0)

OddStartOffsets ==
    {-5, 0, ParamOff(1) + 1, ParamOff(1) + 4, DataOff(1, CannedRecs) + 1,
     EndOff(1, CannedRecs, 2) + 1000}

\* other sources: empty, shorter than the magic, a wrong magic before an
\* otherwise well-formed source, a source that ends after the magic or in
\* the global header, an offset1 beyond the source, a negative offset1, a
\* negative numberofblocks, a numberofblocks larger than the directory, and
\* a parameter block without terminator that is followed by another block
\* (the lengths of the directory in bytes, and in 4-byte words), and
\* parameter blocks at offsets where no record starts
OddSources ==
    {Source(<<>>, 0, 0, <<>>, <<>>, 0, HeaderSize - 4),
     Source(<<10, 10, 254>>, 0, 0, <<>>, <<>>, 0, HeaderSize - 4),
     Source(<<10, 10, 254, 255>>, HeaderSize, 2, TwoBlocks, CannedRecs, 2, 0),
     Source(ftsmagicval, HeaderSize, 0, <<>>, <<>>, 0, HeaderSize - 4),
     Source(ftsmagicval, HeaderSize, 0, <<>>, <<>>, 0, 1),
     Source(ftsmagicval, 1000, 2, TwoBlocks, CannedRecs, 2, 0),
     Source(ftsmagicval, -1, 2, TwoBlocks, CannedRecs, 2, 0),
     Source(ftsmagicval, HeaderSize, -1, TwoBlocks, CannedRecs, 2, 0),
     Source(ftsmagicval, HeaderSize, 3, TwoBlocks, CannedRecs, 2, 0),
     Unterminated(12, 24),
     Unterminated(3, 6)}
    \cup {OddOffset(off) : off \in OddStartOffsets}

(***************************************************************************)
(* get_block and get_datablocks.                                           *)
(***************************************************************************)
KeyRES == <<82, 69, 83>>
KeyFXV == <<70, 88, 86>>
KeyLXV == <<76, 88, 86>>

\* float(v) and the division by it (line 206): the exception, or "ok"
FloatDivide(v) ==
    CASE v[1] = "str" -> "ValueError"
      [] v[1] = "int" /\ v[2] = 0 -> "ZeroDivisionError"
      [] v[1] = "float" /\ Tail(v) = Zeros(8) -> "ZeroDivisionError"
      [] OTHER -> "ok"

\* the outcome of get_block(pointer, length) (lines 188-195): the samples,
\* 4 bytes each, or the exception
GetBlock(d, pointer, length) ==
    IF pointer < 0 THEN [outcome |-> "ValueError", dat |-> <<>>, read |-> <<>>]
    ELSE LET b == ReadAt(d, pointer, length * 4)
             rd == <<<<"get_block", pointer, length * 4>>>>
         IN  IF length < 0 \/ Len(b) # 4 * length
             THEN [outcome |-> "struct.error", dat |-> <<>>, read |-> rd]
             ELSE [outcome |-> "ok", read |-> rd,
                   dat |-> [i \in 1..length |-> SubSeq(b, 4 * i - 3, 4 * i)]]

\* the x axis of a spectrum block: np.linspace(FXV, LXV, len(yax)) of the
\* header block hname (lines 207-219)
SpectrumAxis(hdr, hname, n) ==
    IF hname \notin DOMAIN hdr THEN [outcome |-> "KeyError", xax |-> <<>>]
    ELSE IF KeyFXV \notin DOMAIN hdr[hname] \/ KeyLXV \notin DOMAIN hdr[hname]
    THEN [outcome |-> "KeyError", xax |-> <<>>]
    ELSE [outcome |-> "ok",
          xax |-> <<"linspace", hdr[hname][KeyFXV], hdr[hname][KeyLXV], n>>]

\* the x axis of an interferogram block (line 206)
IfgAxis(hdr, n) ==
    IF "Acquisition Parameters" \notin DOMAIN hdr
    THEN [outcome |-> "KeyError", xax |-> <<>>]
    ELSE IF KeyRES \notin DOMAIN hdr["Acquisition Parameters"]
    THEN [outcome |-> "KeyError", xax |-> <<>>]
    ELSE LET res == hdr["Acquisition Parameters"][KeyRES]
         IN  IF FloatDivide(res) # "ok"
             THEN [outcome |-> FloatDivide(res), xax |-> <<>>]
             ELSE [outcome |-> "ok", xax |-> <<"linspace", IntVal(0), res, n>>]

\* xax of get_datablocks (lines 203-220); a block name that is none of the
\* six leaves xax unassigned, and "return xax, yax" then fails
Axis(def, hdr, block, n) ==
    IF block \notin {"Data Block IgSm", "Data Block", "Data Block SpSm",
                     "Data Block ScSm", "Data Block TrSm", "Data Block PhSm"}
    THEN [outcome |-> "UnboundLocalError", xax |-> <<>>]
    ELSE IF "header" \notin def THEN [outcome |-> "AttributeError", xax |-> <<>>]
    ELSE IF block \in {"Data Block IgSm", "Data Block"} THEN IfgAxis(hdr, n)
    ELSE SpectrumAxis(hdr, "Data Parameters" \o SubSeq(block, 11, Len(block)), n)

\* the log line of the branch of get_datablocks that builds the x axis
AxisLog(block) ==
    CASE block \in {"Data Block IgSm", "Data Block"} -> <<"Getting ifg data block">>
      [] block \in {"Data Block SpSm", "Data Block ScSm"} -> <<"Getting spc data block">>
      [] block = "Data Block TrSm" -> <<"Getting trm data block">>
      [] block = "Data Block PhSm" -> <<"Getting pha data block">>
      [] OTHER -> <<>>

\* self.search_block(block): the entry, or None after a log line
SearchBlockFinds(d, block) == block \in FsKeys(d)

\* get_datablocks(block) (lines 197-220) on a reader with the attributes def,
\* the directory d and the header hdr: the outcome ("ok" or the exception
\* that leaves the call), the axes, what is logged and read, and the number
\* of get_block calls made (each takes one file object, line 191)
GetDatablocks(def, d, hdr, bytes, block) ==
    LET l0 == <<"Getting data blocks">>
        fail(o, l, r, n) == [outcome |-> o, xax |-> <<>>, yax |-> <<>>, log |-> l,
                             read |-> r, got |-> n]
    IN  IF "fs" \notin def THEN fail("AttributeError", l0, <<>>, 0)
        ELSE IF ~SearchBlockFinds(d, block)
        THEN fail("TypeError",
                  l0 \o <<"Could not find " \o block \o " in self.fs.keys()">>, <<>>, 0)
        ELSE LET e == FsGet(d, block)
                 l1 == l0 \o <<"Getting data block at " \o ToString(e.offset)
                               \o " with length " \o ToString(e.length)>>
                 g == GetBlock(bytes, e.offset, e.length)
             IN  IF g.outcome # "ok" THEN fail(g.outcome, l1, g.read, 1)
                 ELSE LET a == Axis(def, hdr, block, Len(g.dat))
                          l2 == l1 \o AxisLog(block)
                      IN  IF a.outcome # "ok" THEN fail(a.outcome, l2, g.read, 1)
                          ELSE [outcome |-> "ok", xax |-> a.xax, yax |-> g.dat,
                                log |-> l2, read |-> g.read, got |-> 1]

(***************************************************************************)
(* The reader: __init__ and the operations it calls, step by step.         *)
(***************************************************************************)
\* no file object has been handed out yet
NoHandle == [open |-> 0, peak |-> 0]

\* fi = self.getfileobject() (lines 102-114): one more file object is open
GetFileObject(h) == [open |-> h.open + 1, peak |-> Max(h.peak, h.open + 1)]

\* a variant of WithExit, as the code would be if: the with statement were
\* absent and only the attribute reference fi.close of line 100 were left
WithExitLeak(h) == h

\* the end of "with fi as f:" (lines 74, 123, 192, 229), reached by the last
\* statement of the body or by an exception: the file object is closed
WithExit(h) == [h EXCEPT !.open = @ - 1]

\* a variant of NextCursor, as the code would be if: the two statements
\* "i+=8" and "i+=2*length" (lines 130, 137) were missing
NextCursorStuck(i, length) == i

\* i after a record that is no terminator (lines 130, 137)
NextCursor(i, length) == i + RecHeadSize + 2 * length

\* Preview125.__init__ (lines 447-514): running is False and the timer,
\* made by new_timer, has not been started
NoPreview ==
    /\ running = FALSE
    /\ timer1 = FALSE
    /\ ppc = "idle"
    /\ pstatus = ""
    /\ tick = 0
    /\ polls = 0
    /\ sent = <<>>
    /\ parsed = <<>>

NoRet == [block |-> "", outcome |-> "none", xax |-> <<>>, yax |-> <<>>]
NoSm == [stage |-> "none"]

\* the state at line 270 of __init__, for a source s and the arguments
InitReader(s, gs, gi) ==
    /\ src = s
    /\ data = Encode(s)
    /\ getslices = gs
    /\ getifg = gi
    /\ pc = "start"
    /\ status = TRUE
    /\ isftsfile = FALSE
    /\ defined = {}
    /\ fs = <<>>
    /\ header = EmptyMap
    /\ ifg = <<>>
    /\ log = <<"Initializing">>
    /\ reads = <<>>
    /\ calls = <<>>
    /\ sidx = 0
    /\ snum = 0
    /\ spos = 0
    /\ hidx = 0
    /\ poff = 0
    /\ pi = 0
    /\ params = EmptyMap
    /\ ret = NoRet
    /\ sm = NoSm
    /\ fi = NoHandle
    /\ NoPreview

Init ==
    \/ \E s \in DirSources, gi \in BOOLEAN : InitReader(s, FALSE, gi)
    \/ \E s \in RecSources : InitReader(s, FALSE, FALSE)
    \/ \E s \in OddSources, gs \in BOOLEAN, gi \in BOOLEAN : InitReader(s, gs, gi)

\* the except clause of __init__ (lines 293-295)
Problem(kind) == "Problem with " \o kind

loopvars == <<sidx, snum, spos, hidx, poff, pi, params>>
inputs == <<src, data, getslices, getifg>>

\* test_if_ftsfile (lines 222-245), called when getslices is false
TestIfFtsfile ==
    /\ pc = "start"
    /\ ~getslices
    /\ LET magic == ReadAt(data, 0, 4)
       IN  /\ status' = (magic = ftsmagicval)
           /\ isftsfile' = (magic = ftsmagicval)
           /\ log' = IF magic = ftsmagicval THEN Append(log, "testing if FTS file")
                     ELSE log \o <<"testing if FTS file", "Bad Magic found in ">>
    /\ defined' = defined \cup {"isftsfile"}
    /\ reads' = Append(reads, <<"test_if_ftsfile", 0, 4>>)
    /\ fi' = WithExit(GetFileObject(fi))
    /\ pc' = "tested"
    /\ UNCHANGED <<inputs, fs, header, ifg, calls, loopvars, ret, sm,
                   preview>>

\* getslices: the magic is not tested (line 278)
SkipTest ==
    /\ pc = "start"
    /\ getslices
    /\ pc' = "tested"
    /\ UNCHANGED <<inputs, status, isftsfile, defined, fs, header, ifg, log,
                   reads, calls, loopvars, ret, sm, fi,
                   preview>>

\* raise(ValueError(...)) of line 289, caught at line 293
Reject ==
    /\ pc = "tested"
    /\ ~status
    /\ log' = Append(log, Problem("Does not seem to be an FTS file ... skipping"))
    /\ pc' = "done"
    /\ UNCHANGED <<inputs, status, isftsfile, defined, fs, header, ifg, reads,
                   calls, loopvars, ret, sm, fi,
                   preview>>

\* read_header calls read_structure (lines 171-172, 72-80): self.fs = {}, the
\* global header is read and the cursor moves to offset1; a short header
\* (struct.error) or a negative offset1 (ValueError) leaves __init__ through
\* its except clause
ReadStructureBegin ==
    /\ pc = "tested"
    /\ status
    /\ ~getslices
    /\ fs' = <<>>
    /\ defined' = defined \cup {"fs"}
    /\ reads' = Append(reads, <<"read_structure", 0, HeaderSize>>)
    /\ LET s == ReadAt(data, 0, HeaderSize)
           l == log \o <<"Reading Header ...", "Reading structure of file">>
       IN  IF Len(s) # HeaderSize
           THEN /\ log' = Append(l, Problem("struct.error"))
                /\ fi' = WithExit(GetFileObject(fi))
                /\ pc' = "done"
                /\ UNCHANGED <<sidx, snum, spos>>
           ELSE IF I32(SubSeq(s, 13, 16)) < 0
           THEN /\ log' = Append(l, Problem("ValueError"))
                /\ fi' = WithExit(GetFileObject(fi))
                /\ pc' = "done"
                /\ UNCHANGED <<sidx, snum, spos>>
           ELSE /\ log' = l
                /\ fi' = GetFileObject(fi)
                /\ pc' = "structure"
                /\ sidx' = 0
                /\ snum' = I32(SubSeq(s, 21, 24))
                /\ spos' = I32(SubSeq(s, 13, 16))
    /\ UNCHANGED <<inputs, status, isftsfile, header, ifg, calls, hidx, poff, pi,
                   params, ret, sm,
                   preview>>

\* one iteration of the loop of read_structure (lines 81-99)
ReadStructureEntry ==
    /\ pc = "structure"
    /\ sidx < snum
    /\ reads' = Append(reads, <<"read_structure", spos, EntrySize>>)
    /\ LET s == ReadAt(data, spos, EntrySize)
       IN  IF Len(s) # EntrySize
           THEN /\ log' = Append(log, Problem("struct.error"))
                /\ fi' = WithExit(fi)
                /\ pc' = "done"
                /\ UNCHANGED <<fs, sidx, spos>>
           ELSE /\ fs' = FsPut(fs, FsEntry(s))
                /\ log' = Append(log, "Found block " \o FsEntry(s).blocktype \o ", "
                                      \o FsEntry(s).blocktype2 \o " and identified as "
                                      \o Identified(s[1], s[2]))
                /\ sidx' = sidx + 1
                /\ spos' = spos + EntrySize
                /\ pc' = "structure"
                /\ UNCHANGED fi
    /\ UNCHANGED <<inputs, status, isftsfile, defined, header, ifg, calls, snum,
                   hidx, poff, pi, params, ret, sm,
                   preview>>

\* read_structure returns; self.header = {} (line 173)
ReadStructureEnd ==
    /\ pc = "structure"
    /\ sidx >= snum
    /\ header' = EmptyMap
    /\ defined' = defined \cup {"header"}
    /\ hidx' = 1
    /\ fi' = WithExit(fi)
    /\ pc' = "header"
    /\ UNCHANGED <<inputs, status, isftsfile, fs, ifg, log, reads, calls, sidx,
                   snum, spos, poff, pi, params, ret, sm,
                   preview>>

\* the loop of read_header over self.fs.keys() (lines 174-185): a block that
\* is skipped, or the call of getparamsfromblock for it
HeaderBlock ==
    /\ pc = "header"
    /\ hidx <= Len(fs)
    /\ LET e == fs[hidx]
       IN  IF HeaderBearing(e) /\ ~SkippedName(e.name)
           THEN /\ log' = Append(log, "Reading Header Block: " \o e.name)
                /\ calls' = Append(calls, [block |-> e.name, offset |-> e.offset,
                                           outcome |-> "running", first |-> Len(reads) + 1,
                                           last |-> 0])
                /\ poff' = e.offset
                /\ pi' = 0
                /\ params' = EmptyMap
                /\ fi' = GetFileObject(fi)
                /\ pc' = "params"
                /\ UNCHANGED hidx
           ELSE /\ hidx' = hidx + 1
                /\ UNCHANGED <<log, calls, poff, pi, params, pc, fi>>
    /\ UNCHANGED <<inputs, status, isftsfile, defined, fs, header, ifg, reads,
                   sidx, snum, spos, ret, sm,
                   preview>>

\* the outcome of the running getparamsfromblock call, and its last read
Finish(outcome, nreads) ==
    [calls EXCEPT ![Len(calls)].outcome = outcome, ![Len(calls)].last = nreads]

\* one iteration of the loop of getparamsfromblock (lines 124-163).  An
\* exception of the seek or of the unpack of the record header leaves the
\* call and is caught by read_header (lines 182-184); an exception of the
\* decoding of the value is caught inside the loop (lines 158-161).
DecodeRecord ==
    /\ pc = "params"
    /\ LET pos == poff + pi
           s == ReadAt(data, pos, RecHeadSize)
           para == TrimPara(SubSeq(s, 1, 4))
           thistype == U16(SubSeq(s, 5, 6))
           length == U16(SubSeq(s, 7, 8))
           payload == ReadAt(data, pos + RecHeadSize, 2 * length)
           val == DecodeValue(thistype, length, payload)
           rd == <<"getparamsfromblock", pos, RecHeadSize>>
       IN  IF pos < 0
           THEN /\ log' = Append(log, "ValueError")
                /\ calls' = Finish("error", Len(reads))
                /\ hidx' = hidx + 1
                /\ fi' = WithExit(fi)
                /\ pc' = "header"
                /\ UNCHANGED <<header, reads, pi, params>>
           ELSE IF Len(s) # RecHeadSize
           THEN /\ log' = Append(log, "struct.error")
                /\ reads' = Append(reads, rd)
                /\ calls' = Finish("error", Len(reads) + 1)
                /\ hidx' = hidx + 1
                /\ fi' = WithExit(fi)
                /\ pc' = "header"
                /\ UNCHANGED <<header, pi, params>>
           ELSE IF IsTerminator(para, length)
           THEN /\ header' = MapPut(header, fs[hidx].name, params)
                /\ reads' = Append(reads, rd)
                /\ calls' = Finish("ok", Len(reads) + 1)
                /\ hidx' = hidx + 1
                /\ fi' = WithExit(fi)
                /\ pc' = "header"
                /\ UNCHANGED <<log, pi, params>>
           ELSE /\ reads' = reads \o <<rd, <<"getparamsfromblock",
                                            pos + RecHeadSize, 2 * length>>>>
                /\ pi' = NextCursor(pi, length)
                /\ IF Raised(val)
                   THEN log' = Append(log, val[2]) /\ UNCHANGED params
                   ELSE IF ~Utf8Ok(para)
                   THEN log' = Append(log, "UnicodeDecodeError") /\ UNCHANGED params
                   ELSE params' = MapPut(params, para, val) /\ UNCHANGED log
                /\ UNCHANGED <<header, calls, hidx, pc, fi>>
    /\ UNCHANGED <<inputs, status, isftsfile, defined, fs, ifg, sidx, snum, spos,
                   poff, ret, sm,
                   preview>>

\* the rest of __init__ (lines 285-288): the interferogram is read if it was
\* requested and has_block finds it; has_block fails on a reader without fs
IfgIfRequested ==
    IF getifg /\ "fs" \notin defined
    THEN /\ log' = Append(log, Problem("AttributeError"))
         /\ UNCHANGED <<ifg, reads, defined, fi>>
    ELSE IF getifg /\ "Data Block IgSm" \in FsKeys(fs)
    THEN LET g == GetDatablocks(defined, fs, header, data, "Data Block IgSm")
         IN  /\ reads' = reads \o g.read
             /\ fi' = IF g.got = 1 THEN WithExit(GetFileObject(fi)) ELSE fi
             /\ IF g.outcome = "ok"
                THEN /\ ifg' = <<g.xax, g.yax>>
                     /\ defined' = defined \cup {"ifgopd", "ifg"}
                     /\ log' = log \o g.log
                ELSE /\ log' = log \o g.log \o <<Problem(g.outcome)>>
                     /\ UNCHANGED <<ifg, defined>>
    ELSE /\ log' = Append(log, "No Interferogram requested or not found ... skipping.")
         /\ UNCHANGED <<ifg, reads, defined, fi>>

\* read_header returns (line 186) and __init__ ends
HeaderEnd ==
    /\ pc = "header"
    /\ hidx > Len(fs)
    /\ IfgIfRequested
    /\ pc' = "done"
    /\ UNCHANGED <<inputs, status, isftsfile, fs, header, calls, loopvars, ret, sm,
                   preview>>

\* getslices: read_header is not called (lines 281-283) and __init__ ends
SlicesEnd ==
    /\ pc = "tested"
    /\ status
    /\ getslices
    /\ IfgIfRequested
    /\ pc' = "done"
    /\ UNCHANGED <<inputs, status, isftsfile, fs, header, calls, loopvars, ret, sm,
                   preview>>

\* the block names a caller asks get_datablocks for
ProbeNames == {"Data Block IgSm", "Data Block", "Data Block ScSm",
               "Instrument Parameters", "No Such Block"}

\* a caller calls get_datablocks(block) on the constructed reader
CallGetDatablocks ==
    /\ pc = "done"
    /\ \E block \in ProbeNames :
         LET g == GetDatablocks(defined, fs, header, data, block)
         IN  /\ ret' = [block |-> block, outcome |-> g.outcome,
                        xax |-> g.xax, yax |-> g.yax]
             /\ log' = log \o g.log
             /\ reads' = reads \o g.read
             /\ fi' = IF g.got = 1 THEN WithExit(GetFileObject(fi)) ELSE fi
    /\ pc' = "called"
    /\ UNCHANGED <<inputs, status, isftsfile, defined, fs, header, ifg, calls,
                   loopvars, sm, preview>>

Next ==
    \/ TestIfFtsfile
    \/ SkipTest
    \/ Reject
    \/ ReadStructureBegin
    \/ ReadStructureEntry
    \/ ReadStructureEnd
    \/ HeaderBlock
    \/ DecodeRecord
    \/ HeaderEnd
    \/ SlicesEnd
    \/ CallGetDatablocks

Spec == Init /\ [][Next]_vars

\* the interpreter runs the next iteration of the loop of getparamsfromblock
\* (line 124) as long as test is true
SpecLive == Init /\ [][Next]_vars /\ WF_vars(DecodeRecord)

(***************************************************************************)
(* smooth_ifg (lines 303-333).  The samples of the interferogram are       *)
(* named by their index; the values of the two windows are 0, 1, or the    *)
(* value of the raised cosine at a bin, which is kept symbolic.            *)
(***************************************************************************)
\* p = 5: percent apodization region
PercentApod == 5
\* the largest cutoff wavenumber that is enumerated
MaxCutoff == 11
\* the laser wavenumbers of the enumerated calls
Lwns == {10}
\* the window lengths l0 of the enumerated calls
WindowLengths == {19, 20, 21, 40}

Zero == <<"const", 0>>
One == <<"const", 1>>

\* int(x / 2) for an integer x: Python's int() rounds towards zero
IntHalf(x) == IF x >= 0 THEN x \div 2 ELSE -((-x) \div 2)

\* the indices (from 0) that the slice [a:b] of a sequence of n items selects
PySlice(n, a, b) ==
    LET lo == IF a < 0 THEN Max(a + n, 0) ELSE Min(a, n)
        hi == IF b < 0 THEN Max(b + n, 0) ELSE Min(b, n)
    IN  [i \in 1..Max(hi - lo, 0) |-> lo + i - 1]

\* ifg0 = o.ifg[int(pkl-l0/2):int(pkl+l0/2)] (line 306), as sample indices
Crop(n, pkl, l0) == PySlice(n, IntHalf(2 * pkl - l0), IntHalf(2 * pkl + l0))

\* (cos(pi*k/l)+1)**2/4: 1 at k = 0, below 1 for 0 < k < l
Ramp(k, l) == IF k = 0 THEN One ELSE <<"ramp", k, l>>

\* a1 of lines 311-313, or <<"raise">> when the assignment to a1[-l:] fails:
\* for l = 0 that slice is the whole array and the right side is empty
ApodWindow(l0) ==
    LET l == (l0 * PercentApod) \div 100
    IN  IF l = 0 /\ l0 # 0 THEN <<"raise">>
        ELSE [j \in 1..l0 |-> IF j <= l THEN Ramp(l - j, l)
                              ELSE IF j > l0 - l THEN Ramp(j - (l0 - l) - 1, l)
                              ELSE One]

\* ifga = ifgz*a1 (line 314): the length of the product of arrays of c and
\* l0 items, or -1 when they cannot be broadcast
ProductLen(c, l0) ==
    IF c = l0 THEN l0 ELSE IF c = 1 THEN l0 ELSE IF l0 = 1 THEN c ELSE -1

\* l = len(wvn[wvn<cutoff]) (lines 318-320): wvn[k] = 2*k*lwn/N, k < int(N/2)
CutoffIndex(N, lwn, cutoff) ==
    Cardinality({k \in 0..(N \div 2) - 1 : 2 * k * lwn < cutoff * N})

\* cos(pi*wvn[k]/(2*cutoff))**2: 1 at bin 0, strictly between 0 and 1 at a bin
\* 0 < k whose wavenumber is below the cutoff
Taper(k) == IF k = 0 THEN One ELSE <<"cos2", k>>

\* a variant of FilterWindow, as the code would be if: ones outside the tapers
FilterWindowOnes(N, l) ==
    IF l = 0 /\ N # 0 THEN <<"raise">>
    ELSE [j \in 1..N |-> IF j <= l THEN Taper(j - 1)
                         ELSE IF j > N - l THEN Taper(N - j)
                         ELSE One]

\* a2 of lines 326-329: np.ones(N)*(0+0j) is all zeros; a2[:l] is the taper
\* and a2[-l:] the taper reversed; <<"raise">> when the assignment to a2[-l:]
\* fails (l = 0)
FilterWindow(N, l) ==
    IF l = 0 /\ N # 0 THEN <<"raise">>
    ELSE [j \in 1..N |-> IF j <= l THEN Taper(j - 1)
                         ELSE IF j > N - l THEN Taper(N - j)
                         ELSE Zero]

\* smooth_ifg(o, lwn, cutoff, l0) for an interferogram of n samples and
\* PKL = pkl: where it failed ("apod", "product", "fft", "filter") or "ok",
\* and what it had computed by then
SmoothIfg(n, pkl, l0, lwn, cutoff) ==
    LET crop == Crop(n, pkl, l0)
        a1 == ApodWindow(l0)
        N == ProductLen(Len(crop), l0)
        l == IF N > 0 THEN CutoffIndex(N, lwn, cutoff) ELSE 0
        a2 == IF N > 0 THEN FilterWindow(N, l) ELSE <<>>
        res(o, w1, len, ll, w2) ==
            [outcome |-> o, crop |-> crop, a1 |-> w1, N |-> len, l |-> ll,
             a2 |-> w2, smoothed |-> IF o = "ok" THEN len ELSE -1]
    IN  IF a1 = <<"raise">> THEN res("apod", <<>>, -1, -1, <<>>)
        ELSE IF N = -1 THEN res("product", a1, -1, -1, <<>>)
        ELSE IF N = 0 THEN res("fft", a1, 0, -1, <<>>)
        ELSE IF a2 = <<"raise">> THEN res("filter", a1, N, l, <<>>)
        ELSE res("ok", a1, N, l, a2)

\* the calls of smooth_ifg that are enumerated
InitSmooth ==
    /\ \E l0 \in WindowLengths, extra \in -1..MaxExtra, cutoff \in 0..MaxCutoff :
         \E pkl \in 0..(l0 + extra - 1), lwn \in Lwns :
            sm = [stage |-> "args", n |-> l0 + extra, pkl |-> pkl, l0 |-> l0,
                  lwn |-> lwn, cutoff |-> cutoff]
    /\ src = Source(ftsmagicval, HeaderSize, 0, <<>>, <<>>, 0, 0)
    /\ data = Encode(src)
    /\ getslices = FALSE
    /\ getifg = TRUE
    /\ pc = "smooth"
    /\ status = TRUE
    /\ isftsfile = TRUE
    /\ defined = {"isftsfile", "fs", "header", "ifgopd", "ifg"}
    /\ fs = <<>>
    /\ header = EmptyMap
    /\ ifg = <<>>
    /\ log = <<>>
    /\ reads = <<>>
    /\ calls = <<>>
    /\ sidx = 0
    /\ snum = 0
    /\ spos = 0
    /\ hidx = 0
    /\ poff = 0
    /\ pi = 0
    /\ params = EmptyMap
    /\ ret = NoRet
    /\ fi = NoHandle
    /\ NoPreview

\* the call of smooth_ifg
CallSmoothIfg ==
    /\ pc = "smooth"
    /\ sm.stage = "args"
    /\ sm' = [stage |-> "done", n |-> sm.n, pkl |-> sm.pkl, l0 |-> sm.l0,
              lwn |-> sm.lwn, cutoff |-> sm.cutoff,
              out |-> SmoothIfg(sm.n, sm.pkl, sm.l0, sm.lwn, sm.cutoff)]
    /\ UNCHANGED <<inputs, pc, status, isftsfile, defined, fs, header, ifg, log,
                   reads, calls, loopvars, ret, fi,
                   preview>>

NextSmooth == CallSmoothIfg

SpecSmooth == InitSmooth /\ [][NextSmooth]_vars

(***************************************************************************)
(* Preview125 (lines 335-514): the preview window.  Its handlers are run   *)
(* by the event loop of the one GUI thread, one after the other: the       *)
(* clicks of the two buttons (startpreview, stoppreview) and the callback  *)
(* of the timer (_update).  The instrument and the network are the         *)
(* environment: a request is answered, or requests.get raises.             *)
(***************************************************************************)
\* the callbacks of the timer that are followed
MaxTicks == 2
\* the answers other than 'IDL' that get_status gets in one callback
MaxPolls == 2
\* the stop commands that are followed
MaxStops == 2

\* what requests.get(url) gives: a response, or an exception
Replies == {"ok", "fail"}
\* what get_status (lines 351-357) returns: 'IDL', or any other text
StatusTexts == {"IDL", "SCN"}

\* the request of requests.get(url) in the callback t, and how it ended
Request(t, url, reply) == [tick |-> t, url |-> url, reply |-> reply]

\* self._timer1.start() (line 388)
TimerStart(t) == TRUE

\* a variant of TimerStop, as the code would be if: stoppreview did not
\* call self._timer1.stop()
TimerStopMissing(t) == t

\* self._timer1.stop() (line 393)
TimerStop(t) == FALSE

\* start_measurement (lines 341-345): the urls it requests
StartMeasurement(rn) == IF rn THEN <<"measure">> ELSE <<>>

\* an exception leaves the handler: the event loop goes on with the next
\* event, or the process is aborted (either is what a Qt binding does with
\* an exception raised in a slot)
AfterException == {"idle", "aborted"}

InitPreview ==
    /\ NoPreview
    /\ src = Source(ftsmagicval, HeaderSize, 0, <<>>, <<>>, 0, 0)
    /\ data = Encode(src)
    /\ getslices = FALSE
    /\ getifg = TRUE
    /\ pc = "preview"
    /\ status = TRUE
    /\ isftsfile = FALSE
    /\ defined = {}
    /\ fs = <<>>
    /\ header = EmptyMap
    /\ ifg = <<>>
    /\ log = <<>>
    /\ reads = <<>>
    /\ calls = <<>>
    /\ sidx = 0
    /\ snum = 0
    /\ spos = 0
    /\ hidx = 0
    /\ poff = 0
    /\ pi = 0
    /\ params = EmptyMap
    /\ ret = NoRet
    /\ sm = NoSm
    /\ fi = NoHandle

\* startpreview (lines 385-388), the handler of the start button
StartPreview ==
    /\ pc = "preview"
    /\ ppc = "idle"
    /\ running' = TRUE
    /\ timer1' = TimerStart(timer1)
    /\ UNCHANGED <<ppc, pstatus, tick, polls, sent, parsed, readervars>>

\* stoppreview (lines 390-394), the handler of the stop button, with
\* stop_measurement (lines 347-349)
StopPreview ==
    /\ pc = "preview"
    /\ ppc = "idle"
    /\ Cardinality({i \in 1..Len(sent) : sent[i].url = "measurestop"}) < MaxStops
    /\ running' = FALSE
    /\ timer1' = TimerStop(timer1)
    /\ \E reply \in Replies :
         /\ sent' = Append(sent, Request(tick, "measurestop", reply))
         /\ IF reply = "ok" THEN ppc' = "idle" ELSE ppc' \in AfterException
    /\ UNCHANGED <<pstatus, tick, polls, parsed, readervars>>

\* the timer fires and calls _update (line 409), which calls get_preview:
\* lines 360-363, with start_measurement
TimerCallback ==
    /\ pc = "preview"
    /\ ppc = "idle"
    /\ timer1
    /\ tick < MaxTicks
    /\ tick' = tick + 1
    /\ polls' = 0
    /\ IF running
       THEN \E reply \in Replies :
              /\ sent' = sent \o [i \in 1..Len(StartMeasurement(running)) |->
                                     Request(tick', StartMeasurement(running)[i], reply)]
              /\ IF reply = "ok"
                 THEN ppc' = "poll" /\ pstatus' = "SCN"
                 ELSE ppc' \in AfterException /\ UNCHANGED pstatus
       ELSE UNCHANGED <<sent, ppc, pstatus>>
    /\ UNCHANGED <<running, timer1, parsed, readervars>>

\* one iteration of the loop of get_preview (lines 364-366): get_status
GetStatus ==
    /\ pc = "preview"
    /\ ppc = "poll"
    /\ \/ \E text \in StatusTexts :
            /\ text # "IDL" => polls < MaxPolls
            /\ sent' = Append(sent, Request(tick, "stat.htm", text))
            /\ pstatus' = text
            /\ polls' = polls + 1
            /\ ppc' = IF text = "IDL" THEN "idl" ELSE "poll"
       \/ /\ sent' = Append(sent, Request(tick, "stat.htm", "fail"))
          /\ ppc' \in AfterException
          /\ UNCHANGED <<pstatus, polls>>
    /\ UNCHANGED <<running, timer1, tick, parsed, readervars>>

\* the rest of get_preview (lines 367-380) and of _update: the link of the
\* data file is requested, the file is downloaded and parsed by ftsreader,
\* and smooth_ifg and the plots follow; any of the requests and of the
\* steps after the parsing may raise
GetPreviewData ==
    /\ pc = "preview"
    /\ ppc = "idl"
    /\ IF pstatus = "IDL"
       THEN \E outcome \in {"ok", "nolink", "nofile", "raised"} :
              /\ sent' = sent \o
                    (CASE outcome = "nolink" -> <<Request(tick, "datafile.htm", "fail")>>
                       [] outcome = "nofile" -> <<Request(tick, "datafile.htm", "ok"),
                                                  Request(tick, "download", "fail")>>
                       [] OTHER -> <<Request(tick, "datafile.htm", "ok"),
                                     Request(tick, "download", "ok")>>)
              /\ parsed' = IF outcome \in {"ok", "raised"}
                           THEN Append(parsed, tick) ELSE parsed
              /\ IF outcome = "ok" THEN ppc' = "idle" ELSE ppc' \in AfterException
       ELSE ppc' = "idle" /\ UNCHANGED <<sent, parsed>>
    /\ UNCHANGED <<running, timer1, pstatus, tick, polls, readervars>>

NextPreview ==
    \/ StartPreview
    \/ StopPreview
    \/ TimerCallback
    \/ GetStatus
    \/ GetPreviewData

SpecPreview == InitPreview /\ [][NextPreview]_vars

(***************************************************************************)
(* What the sources were serialised from, for the statements below.        *)
(***************************************************************************)
\* __init__ has ended
Constructed == pc = "done"

\* read_header has returned
ScanDone == pc = "done" /\ "header" \in defined

\* the first 4 bytes of the source differ from the magic (or are missing)
BadMagic == ReadAt(data, 0, 4) # ftsmagicval

\* the global header is whole and the source ends before the last of its
\* numberofblocks directory entries
TruncatedDir ==
    /\ src.magic = ftsmagicval
    /\ Len(data) >= HeaderSize
    /\ src.off >= 0
    /\ src.n > 0
    /\ src.off + EntrySize * src.n > Len(data)

\* the name under which a described entry is filed
NameOf(d) == HdrBlockName(d.bt, d.bt2, d.length)

\* the directory of the source is exactly the described one, and whole
WholeDir ==
    /\ src.magic = ftsmagicval
    /\ src.off = HeaderSize
    /\ src.n = Len(src.dir)
    /\ Len(data) >= HeaderSize + EntrySize * src.n

(***************************************************************************)
(* C1.  A source whose first 4 bytes differ from the magic: the reader is  *)
(* constructed with status and isftsfile false and an empty directory, and *)
(* nothing but the magic is read.  Stated for the default getslices=False. *)
(* Violated: self.fs is never assigned on this path, so the reader has no  *)
(* directory at all (has_block and search_block raise AttributeError).     *)
(***************************************************************************)
C1_RejectedWithEmptyDirectory ==
    (Constructed /\ ~getslices /\ BadMagic) =>
        /\ status = FALSE
        /\ "isftsfile" \in defined /\ isftsfile = FALSE
        /\ "fs" \in defined /\ fs = <<>>
        /\ reads = <<<<"test_if_ftsfile", 0, 4>>>>
        /\ calls = <<>>

(***************************************************************************)
(* C2.  A source that ends before all numberofblocks directory entries:    *)
(* the scan fails with an error that is reported (logged by __init__), and *)
(* the directory holds none of the entries read before the end.            *)
(* Violated: self.fs keeps the entries read before the struct.error.       *)
(***************************************************************************)
C2_NoPartialDirectory ==
    (Constructed /\ ~getslices /\ TruncatedDir) =>
        /\ log[Len(log)] = Problem("struct.error")
        /\ "fs" \in defined => fs = <<>>

(***************************************************************************)
(* What a decoder is expected to return for described records.             *)
(***************************************************************************)
\* where record k of the parameter region starts (k = 1..Len(recs)+1)
RecStart(k) == ParamOff(Len(src.dir)) + Len(RecsBytes(SubSeq(src.recs, 1, k - 1)))

\* the call decodes the parameter region from one of its records on
Aligned(c) == \E k \in 1..Len(src.recs) : c.offset = RecStart(k)

\* the described records from offset on
RecsFrom(offset) ==
    LET k == CHOOSE k \in 1..Len(src.recs) : offset = RecStart(k)
    IN  SubSeq(src.recs, k, Len(src.recs))

\* the index of the first terminator among the records rs, 0 if there is none
FirstEnd(rs) ==
    IF \E j \in 1..Len(rs) : rs[j].kind = "end"
    THEN CHOOSE j \in 1..Len(rs) :
            rs[j].kind = "end" /\ \A i \in 1..(j - 1) : rs[i].kind # "end"
    ELSE 0

\* the records before the first terminator
Before(rs) == SubSeq(rs, 1, FirstEnd(rs) - 1)

\* the mapping of the records rs taken in order, a later record replacing an
\* earlier one of the same key; stored are the kinds in the set kinds
RECURSIVE Stored(_, _, _)
Stored(rs, kinds, m) ==
    IF rs = <<>> THEN m
    ELSE Stored(Tail(rs), kinds,
                IF Head(rs).kind \in kinds
                THEN MapPut(m, Head(rs).key, Head(rs).val) ELSE m)

\* the log lines of exceptions caught while records are decoded
DecodeErrors == {"struct.error", "IndexError", "UnicodeDecodeError", "ValueError"}
ErrorLines == {i \in 1..Len(log) : log[i] \in DecodeErrors}

\* the reader decoded one parameter block, from a described record on, and
\* the call returned
OneCallOk ==
    /\ Len(calls) = 1
    /\ calls[1].outcome = "ok"
    /\ Aligned(calls[1])

(***************************************************************************)
(* C3 as stated.  A record whose type code is not 0..4: its decoding       *)
(* fails, the failure is logged and its tag is absent from the mapping of  *)
(* the block (unless another record stores the tag).                       *)
(* Violated: the code stores the text '[read error]' under the tag and     *)
(* logs nothing.                                                           *)
(***************************************************************************)
C3_BadTypeSkipped ==
    OneCallOk =>
        LET rs == Before(RecsFrom(calls[1].offset))
            m == header[calls[1].block]
        IN  /\ \A j \in 1..Len(rs) :
                 (rs[j].kind = "badtype"
                  /\ \A i \in 1..Len(rs) : rs[i].kind = "store" => rs[i].key # rs[j].key)
                 => rs[j].key \notin DOMAIN m
            /\ Cardinality(ErrorLines)
                 = Cardinality({j \in 1..Len(rs) : rs[j].kind \in {"skip", "badtype"}})

(***************************************************************************)
(* C3 as amended.  A record whose type code is not 0..4 (and whose tag is  *)
(* valid text) is stored under its tag with the text '[read error]' as its *)
(* value and nothing is logged for it: the mapping holds '[read error]'    *)
(* under the tag unless a later record stores the tag again, only the      *)
(* records whose value or tag cannot be decoded are logged, and every      *)
(* later record up to the terminator that decodes is stored.               *)
(***************************************************************************)
C3_BadTypeStoredAsReadError ==
    OneCallOk =>
        LET rs == Before(RecsFrom(calls[1].offset))
            m == header[calls[1].block]
        IN  /\ \A j \in 1..Len(rs) :
                 rs[j].kind = "badtype" =>
                    /\ rs[j].key \in DOMAIN m
                    /\ (\A i \in (j + 1)..Len(rs) :
                            rs[i].kind \in {"store", "badtype"} => rs[i].key # rs[j].key)
                       => m[rs[j].key] = ReadError
                    /\ \A i \in (j + 1)..Len(rs) :
                            rs[i].kind = "store" => rs[i].key \in DOMAIN m
            /\ Cardinality(ErrorLines)
                 = Cardinality({j \in 1..Len(rs) : rs[j].kind = "skip"})

\* C3: a block with a record of type 5 followed by a record that decodes
C3_Witness ==
    /\ OneCallOk
    /\ pc = "done"
    /\ LET rs == Before(RecsFrom(calls[1].offset))
       IN  /\ Len(rs) >= 2
           /\ rs[1].kind = "badtype"
           /\ rs[2].kind = "store" /\ rs[2].key # rs[1].key
    /\ header[calls[1].block][KeyRES] = ReadError

(***************************************************************************)
(* C6.  A call of getparamsfromblock that returns has met a terminator     *)
(* (tag beginning with END, or word count 0); the mapping it returns is    *)
(* that of the records before the first terminator, taken in stream order  *)
(* with a later tag replacing an earlier one; and its last read is the     *)
(* 8-byte header of that terminator: no byte behind it is read.            *)
(***************************************************************************)
C6_StopsAtFirstTerminator ==
    \A n \in 1..Len(calls) :
        (calls[n].outcome = "ok" /\ Aligned(calls[n])) =>
            LET c == calls[n]
                rs == RecsFrom(c.offset)
                e == FirstEnd(rs)
                endpos == c.offset + Len(RecsBytes(SubSeq(rs, 1, e - 1)))
            IN  /\ e > 0
                /\ header[c.block] = Stored(Before(rs), {"store", "badtype"}, EmptyMap)
                /\ reads[c.last] = <<"getparamsfromblock", endpos, RecHeadSize>>
                /\ \A i \in c.first..c.last :
                      /\ reads[i][1] = "getparamsfromblock"
                      /\ reads[i][2] >= c.offset
                      /\ reads[i][2] + reads[i][3] <= endpos + RecHeadSize

\* C6: two records of one tag before a terminator that is not the end of
\* the source
C6_Witness ==
    /\ OneCallOk
    /\ pc = "done"
    /\ LET rs == RecsFrom(calls[1].offset)
       IN  /\ FirstEnd(rs) = 3
           /\ rs[1].kind = "store" /\ rs[2].kind = "store"
           /\ rs[1].key = rs[2].key /\ rs[1].val # rs[2].val
           /\ header[calls[1].block][rs[1].key] = rs[2].val
           /\ Len(data) > calls[1].offset + Len(RecsBytes(SubSeq(rs, 1, 2))) + RecHeadSize

(***************************************************************************)
(* read_header: which entries of the directory are decoded.                *)
(***************************************************************************)
\* the getparamsfromblock calls made for the block name
CallsFor(name) == {n \in 1..Len(calls) : calls[n].block = name}

\* the primary type code of the entry is in the catalogue and is not 0
KnownType(e) == e.blocktype \in {"160", "23", "96", "64", "48", "32", "7"}

\* the entry is a data block: its primary type code is 7
DataBlock(e) == e.blocktype = "7"

(***************************************************************************)
(* C4 as stated.  After a successful scan the header has a mapping for     *)
(* every directory entry that is neither a data block nor of length zero,  *)
(* and for no other; an entry of unknown or unidentified (code 0) primary  *)
(* type and positive length is decoded exactly once; no entry is decoded   *)
(* more than once.                                                         *)
(* Violated: read_header passes over every block whose name contains       *)
(* 'unknown' or 'something', and a block whose decoding raises gets no     *)
(* mapping.                                                                *)
(***************************************************************************)
C4_EveryHeaderBlockDecoded ==
    ScanDone =>
        \A i \in 1..Len(fs) :
            /\ (~DataBlock(fs[i]) /\ fs[i].length > 0)
                 <=> fs[i].name \in DOMAIN header
            /\ (~KnownType(fs[i]) /\ fs[i].length > 0)
                 => Cardinality(CallsFor(fs[i].name)) = 1
            /\ Cardinality(CallsFor(fs[i].name)) <= 1

(***************************************************************************)
(* C4 as amended.  After a successful scan, getparamsfromblock has been    *)
(* called exactly once for every directory entry that is not a data block, *)
(* has a positive length and has a primary type code of the catalogue      *)
(* other than 0, and the header maps the entry's name exactly if that call *)
(* returned; for every other entry (a data block, a length of zero or      *)
(* less, an unknown or code 0 primary type) it has not been called and the *)
(* header has no mapping; the header maps nothing but directory names.     *)
(***************************************************************************)
C4_KnownHeaderBlocksDecodedOnce ==
    ScanDone =>
        /\ DOMAIN header \subseteq FsKeys(fs)
        /\ \A i \in 1..Len(fs) :
             IF ~DataBlock(fs[i]) /\ fs[i].length > 0 /\ KnownType(fs[i])
             THEN /\ Cardinality(CallsFor(fs[i].name)) = 1
                  /\ \A n \in CallsFor(fs[i].name) :
                        (calls[n].outcome = "ok") <=> (fs[i].name \in DOMAIN header)
             ELSE /\ CallsFor(fs[i].name) = {}
                  /\ fs[i].name \notin DOMAIN header

\* C4: a scan of an unknown block of positive length, which is passed over,
\* and a parameter block, which is decoded
C4_Witness ==
    /\ ScanDone
    /\ Len(fs) = 2
    /\ fs[1].blocktype = "5" /\ fs[1].length > 0
    /\ fs[1].name \notin DOMAIN header
    /\ fs[2].name = "Instrument Parameters"
    /\ fs[2].name \in DOMAIN header

(***************************************************************************)
(* C5.  get_datablocks for a name that is not in the directory (the        *)
(* directory may be empty) fails with a dedicated 'block not found' error. *)
(* Violated: search_block returns None and get_datablocks fails with the   *)
(* TypeError of None['offset'].                                            *)
(***************************************************************************)
C5_BlockNotFound ==
    (pc = "called" /\ "header" \in defined /\ ret.block \notin FsKeys(fs)) =>
        ret.outcome = "BlockNotFoundError"

(***************************************************************************)
(* C9.  A source with a whole directory is scanned without an error, and   *)
(* the directory read from it has one entry for every distinct name of the *)
(* described entries: the type codes, length and offset of the last        *)
(* described entry of that name.                                           *)
(***************************************************************************)
C9_LastEntryWins ==
    (Constructed /\ ~getslices /\ WholeDir) =>
        /\ ScanDone
        /\ FsKeys(fs) = {NameOf(src.dir[k]) : k \in 1..Len(src.dir)}
        /\ Len(fs) = Cardinality(FsKeys(fs))
        /\ \A k \in 1..Len(src.dir) :
             (\A j \in (k + 1)..Len(src.dir) : NameOf(src.dir[j]) # NameOf(src.dir[k]))
             => FsGet(fs, NameOf(src.dir[k])) =
                   [name |-> NameOf(src.dir[k]),
                    blocktype |-> ToString(src.dir[k].bt),
                    blocktype2 |-> ToString(src.dir[k].bt2),
                    length |-> src.dir[k].length,
                    offset |-> src.dir[k].offset]

\* C9: two entries of one name and different lengths and offsets
C9_Witness ==
    /\ Constructed /\ ~getslices /\ WholeDir
    /\ Len(src.dir) = 2
    /\ NameOf(src.dir[1]) = NameOf(src.dir[2])
    /\ src.dir[1].offset # src.dir[2].offset
    /\ src.dir[1].length # src.dir[2].length
    /\ Len(fs) = 1
    /\ fs[1].offset = src.dir[2].offset

(***************************************************************************)
(* C10.  Every suffix of the secondary catalogue is the suffix of some     *)
(* secondary type code byte, and a scanned entry with the second-channel   *)
(* code 0x88 is named with the suffix ' IgSm/2.Chn.'.                      *)
(* Violated: the two second-channel keys are bytes objects, the code looks *)
(* up str(blocktype2), and no code yields their suffixes.                  *)
(***************************************************************************)
C10_EverySuffixApplied ==
    (ScanDone /\ \E i \in 1..Len(fs) : fs[i].blocktype2 = "136") =>
        /\ \A k \in DOMAIN blocknames2 : \E b \in 0..255 : Suffix2(b) = blocknames2[k]
        /\ \A i \in 1..Len(fs) :
             fs[i].blocktype2 = "136" => Contains(fs[i].name, " IgSm/2.Chn.")

(***************************************************************************)
(* smooth_ifg.                                                             *)
(***************************************************************************)
\* the call has ended and had reached the filter window (lines 320-329)
FilterReached == sm.stage = "done" /\ sm.out.outcome \in {"filter", "ok"}

(***************************************************************************)
(* C7 as stated.  For every cutoff index l in 0..N/2 the filter window is  *)
(* 1 at every bin i with l <= i < N-l; for l = 0 smooth_ifg completes and  *)
(* the window is the identity.                                             *)
(* Violated: the window is 0 between the tapers, and for l = 0 the         *)
(* assignment to a2[-0:] raises.                                           *)
(***************************************************************************)
C7_WindowOneOutsideTapers ==
    (FilterReached /\ Len(sm.out.crop) = sm.l0) =>
        /\ sm.out.outcome = "ok"
        /\ \A j \in 1..sm.out.N :
             (sm.out.l < j /\ j <= sm.out.N - sm.out.l) => sm.out.a2[j] = One

(***************************************************************************)
(* C7 as amended.  The cutoff index l is in 0..N/2.  For l >= 1 the filter *)
(* window built by smooth_ifg has N values: 0 at every bin i with          *)
(* l <= i < N-l, the raised cosine of bin i at the first l bins, and the   *)
(* same values mirrored at the last l bins, none of them 0.  For l = 0     *)
(* smooth_ifg does not complete: building the window raises an error.      *)
(***************************************************************************)
C7_WindowZeroOutsideTapers ==
    FilterReached =>
        /\ sm.out.l \in 0..(sm.out.N \div 2)
        /\ IF sm.out.l = 0 THEN sm.out.outcome = "filter"
           ELSE /\ sm.out.outcome = "ok"
                /\ Len(sm.out.a2) = sm.out.N
                /\ \A j \in 1..sm.out.N :
                     (sm.out.l < j /\ j <= sm.out.N - sm.out.l) => sm.out.a2[j] = Zero
                /\ \A k \in 0..(sm.out.l - 1) :
                     /\ sm.out.a2[k + 1] = Taper(k)
                     /\ sm.out.a2[sm.out.N - k] = Taper(k)
                     /\ Taper(k) # Zero

\* C7: a window with tapers of 2 bins or more and bins between them
C7_Witness ==
    /\ FilterReached
    /\ sm.out.outcome = "ok"
    /\ sm.out.l >= 2
    /\ sm.out.N - 2 * sm.out.l >= 1
    /\ sm.out.a2[sm.out.l + 1] = Zero

(***************************************************************************)
(* C8.  For an interferogram of at least window_length samples and a peak  *)
(* index inside it, smooth_ifg works on a crop of exactly window_length    *)
(* samples centred on the peak index (the samples pkl - l0/2 up to         *)
(* pkl + l0/2, rounded down), and what it returns has length               *)
(* window_length.                                                          *)
(* Violated: near either end the slice of line 306 is shorter than l0 (a   *)
(* negative start index counts from the end, a stop index beyond the end   *)
(* is clipped) and the product with the window raises.  Stated for the     *)
(* window lengths whose apodization window can be built.                   *)
(***************************************************************************)
C8_CropOfWindowLength ==
    (sm.stage = "done" /\ sm.n >= sm.l0 /\ sm.pkl \in 0..(sm.n - 1)
     /\ sm.out.outcome # "apod") =>
        /\ Len(sm.out.crop) = sm.l0
        /\ \A i \in 1..Len(sm.out.crop) :
             sm.out.crop[i] = sm.pkl - ((sm.l0 + 1) \div 2) + i - 1
        /\ sm.out.outcome = "ok" =>
             (sm.out.smoothed = sm.l0 /\ Len(sm.out.a1) = sm.l0)

(***************************************************************************)
(* C11: the file object of an operation does not outlive the operation.    *)
(***************************************************************************)
\* the reader is inside the loop of read_structure or of getparamsfromblock
InsideOperation == pc \in {"structure", "params"}

\* C11: a byte source is held only for the duration of one read operation.
\* At the end of test_if_ftsfile, read_structure, getparamsfromblock and
\* get_block, completed or failed, the file object taken from getfileobject
\* is closed: none is open between operations, exactly one is open inside
\* an operation, and never more than one has been open at once.
C11_HandleClosedAfterOperation ==
    /\ fi.open = (IF InsideOperation THEN 1 ELSE 0)
    /\ fi.peak <= 1

\* an operation has completed and another has failed with an error, a data
\* block was read by a caller, and no file object is left open
C11_Witness ==
    /\ pc = "called"
    /\ \E c \in 1..Len(calls) : calls[c].outcome = "error"
    /\ \E c \in 1..Len(calls) : calls[c].outcome = "ok"
    /\ \E r \in 1..Len(reads) : reads[r][1] = "get_block"
    /\ fi = [open |-> 0, peak |-> 1]

(***************************************************************************)
(* C12: the bytes a getparamsfromblock call reads, and the block's range.  *)
(***************************************************************************)
\* the reads of the call calls[c] made so far
ReadsOf(c) ==
    {r \in 1..Len(reads) :
        /\ r >= calls[c].first
        /\ r <= (IF calls[c].outcome = "running" THEN Len(reads) ELSE calls[c].last)}

\* the positions of the bytes that the read reads[r] returned
BytesRead(r) ==
    LET pos == reads[r][2]
    IN  {p \in pos..(pos + reads[r][3] - 1) : p < Len(data)}

\* the length the directory gives for the block of the call calls[c]
BlockLength(c) == FsGet(fs, calls[c].block).length

\* C12: decoding a parameter block reads only bytes inside the block's
\* directory range: for a call with block offset o and block length n, every
\* byte read lies in [o, o+n), so a block without a terminator before its
\* end is not decoded into the bytes of the following block.
C12_ReadsInsideBlock ==
    \A c \in 1..Len(calls) : \A r \in ReadsOf(c) : \A p \in BytesRead(r) :
        /\ p >= calls[c].offset
        /\ p < calls[c].offset + BlockLength(c)

(***************************************************************************)
(* C13: the loop of getparamsfromblock ends.                               *)
(***************************************************************************)
\* the header read of the call calls[c] that ended it met the end of the
\* source: fewer than 8 bytes were left at its position
EndedAtEndOfSource(c) ==
    /\ calls[c].last >= calls[c].first
    /\ reads[calls[c].last][2] + RecHeadSize > Len(data)

\* C13: the parameter-decoding loop terminates on every finite source and
\* every start offset.  An iteration that does not end the loop (a record
\* that is no terminator, decoded or failed) advances the cursor i by at
\* least 10 bytes (8 bytes of header and 2*word_count >= 2 bytes of
\* payload); a call whose header read meets the end of the source ends with
\* an error; and every call that is running eventually returns or raises.
C13_DecodeLoopTerminates ==
    /\ [][(pc = "params" /\ pc' = "params") => pi' >= pi + RecHeadSize + 2]_vars
    /\ [](\A c \in 1..Len(calls) :
            (calls[c].outcome # "running" /\ EndedAtEndOfSource(c))
                => calls[c].outcome = "error")
    /\ (pc = "params") ~> (pc = "header")

\* a call has decoded two records, one of which failed to decode, and has
\* then met the end of the source without a terminator
C13_Witness ==
    /\ pc = "done"
    /\ Len(calls) = 1
    /\ calls[1].outcome = "error"
    /\ EndedAtEndOfSource(1)
    /\ calls[1].last - calls[1].first >= 4
    /\ Cardinality(ErrorLines) >= 2
    /\ pi >= 2 * (RecHeadSize + 2)

(***************************************************************************)
(* C14: the preview cycle.                                                 *)
(***************************************************************************)
\* the step sends the measure command
MeasureSent ==
    /\ Len(sent') > Len(sent)
    /\ \E i \in (Len(sent) + 1)..Len(sent') : sent'[i].url = "measure"

\* the requests of the callback t, in the order they were made
RequestsOf(t) == {i \in 1..Len(sent) : sent[i].tick = t /\ sent[i].url # "measurestop"}

\* in the callback t the measure command was sent and answered, and a
\* status of 'IDL' was seen after it, before the request i
MeasuredThenIdle(t, i) ==
    \E m, k \in RequestsOf(t) :
        /\ m < k /\ k < i
        /\ sent[m].url = "measure" /\ sent[m].reply = "ok"
        /\ sent[k].url = "stat.htm" /\ sent[k].reply = "IDL"

\* C14: over any sequence of startpreview, stoppreview and timer callbacks,
\* the refresh timer is active only while running is true; a measure command
\* is sent only while running is true, and running, false after stoppreview,
\* becomes true only by startpreview, so no measure command is sent after
\* stoppreview until the next startpreview; and within one callback the data
\* file is requested, downloaded and parsed only after the measure command
\* of that callback was sent and a status of 'IDL' was seen after it.
C14_PreviewCycle ==
    /\ [](timer1 => running)
    /\ [][MeasureSent => (running /\ running')]_vars
    /\ [][StopPreview => ~running']_vars
    /\ [][(~running /\ running') => StartPreview]_vars
    /\ [](\A i \in 1..Len(sent) :
            sent[i].url \in {"datafile.htm", "download"}
                => MeasuredThenIdle(sent[i].tick, i))
    /\ [](\A n \in 1..Len(parsed) :
            \E i \in RequestsOf(parsed[n]) :
                /\ sent[i].url = "download" /\ sent[i].reply = "ok"
                /\ MeasuredThenIdle(parsed[n], i))

\* a callback has downloaded and parsed a file, the preview was stopped and
\* started again, a second callback has sent its measure command, and the
\* preview was stopped once more
C14_Witness ==
    /\ ~running /\ ~timer1 /\ ppc = "idle"
    /\ Len(parsed) >= 1
    /\ \E i, j, k \in 1..Len(sent) :
          /\ i < j /\ j < k
          /\ sent[i].url = "measurestop"
          /\ sent[j].url = "measure" /\ sent[j].tick > parsed[1]
          /\ sent[k].url = "measurestop"

=============================================================================
